---- MODULE Spec2Model ----
(***************************************************************************)
(* Model of the Prebloom Whisper transcription microservice                *)
(* (whisper-service/app.py): device selection at start-up, the /health     *)
(* endpoint and the /transcribe handler running as coroutines on one       *)
(* event loop, with the temporary files it creates on disk.                *)
(***************************************************************************)
EXTENDS Integers, Sequences, FiniteSets, TLC

(***************************************************************************)
(* Python values                                                           *)
(***************************************************************************)

\* Python's None, and a present string value s, for an Optional[str].
None == << >>
Some(s) == << s >>

\* str(x) of an Optional[str], as an f-string formats it.
Str(x) == IF x = None THEN "None" ELSE x[1]

\* Truthiness of an Optional[str]: None and "" are falsy.
Truthy(x) == x # None /\ x[1] # ""

UpperLetters == "ABCDEFGHIJKLMNOPQRSTUVWXYZ"
LowerLetters == "abcdefghijklmnopqrstuvwxyz"

\* The i-th character of the string s, as a one-character string.
CharAt(s, i) == SubSeq(s, i, i)

\* str.lower() of one character.
LowerChar(c) ==
    IF \E i \in 1..Len(UpperLetters) : CharAt(UpperLetters, i) = c
    THEN CharAt(LowerLetters, CHOOSE i \in 1..Len(UpperLetters) : CharAt(UpperLetters, i) = c)
    ELSE c

RECURSIVE Lower(_)
\* str.lower(): every cased character replaced by its lowercase form.
Lower(s) == IF s = "" THEN "" ELSE LowerChar(CharAt(s, 1)) \o Lower(SubSeq(s, 2, Len(s)))

\* str.startswith(prefix).
StartsWith(s, prefix) == Len(s) >= Len(prefix) /\ SubSeq(s, 1, Len(prefix)) = prefix

\* The characters str.strip() removes when called without arguments.
Whitespace == {" ", "\t", "\n", "\r"}

RECURSIVE LStrip(_)
LStrip(s) ==
    IF s # "" /\ CharAt(s, 1) \in Whitespace THEN LStrip(SubSeq(s, 2, Len(s))) ELSE s

RECURSIVE RStrip(_)
RStrip(s) ==
    IF s # "" /\ CharAt(s, Len(s)) \in Whitespace THEN RStrip(SubSeq(s, 1, Len(s) - 1)) ELSE s

\* Strip removing leading whitespace only.
StripLeft(s) == LStrip(s)

\* str.strip().
Strip(s) == RStrip(LStrip(s))

RECURSIVE Join(_, _)
\* sep.join(parts) for a sequence of strings.
Join(sep, parts) ==
    IF parts = << >> THEN ""
    ELSE IF Len(parts) = 1 THEN parts[1]
    ELSE parts[1] \o sep \o Join(sep, Tail(parts))

(***************************************************************************)
(* Start-up: device selection, model load, /health                         *)
(***************************************************************************)

\* Outcomes of `import torch` on a host: the module loads, it is absent or
\* broken in a way Python reports as ImportError, or loading it raises some
\* other exception (a shared library that cannot be opened raises OSError).
ImportOutcomes == {"ok", "ImportError", "OSError"}

\* Outcomes of torch.cuda.is_available(): a boolean, or an exception.
CudaOutcomes == {"True", "False", "RuntimeError"}

\* Values platform.machine() is drawn from.
Machines == {"arm64", "aarch64", "ARM64", "AArch64", "Aarch64", "arm64e",
             "armv7l", "x86_64", "AMD64", "i386", ""}

\* Values of the WHISPER_MODEL environment variable (None: unset).
WhisperModelEnv == {None, Some("base"), Some("large-v3")}

Hosts == [import : ImportOutcomes, cuda : CudaOutcomes, machine : Machines,
          env : WhisperModelEnv]

\* os.getenv("WHISPER_MODEL", "small")
GetEnvModel(e) == IF e = None THEN "small" ELSE e[1]

Returned(device, compute_type) ==
    [kind |-> "return", device |-> device, compute_type |-> compute_type, exc |-> ""]
Raised(exc) ==
    [kind |-> "raise", device |-> "", compute_type |-> "", exc |-> exc]

\* CpuConfig comparing the machine string as reported, without lower().
CpuConfigCaseSensitive(h) ==
    IF h.machine \in {"arm64", "aarch64"}
    THEN Returned("cpu", "float32")
    ELSE Returned("cpu", "int8")

\* The ARM / x86 branches of get_device_config, reached when no GPU was chosen.
CpuConfig(h) ==
    LET machine == Lower(h.machine) IN
    IF machine \in {"arm64", "aarch64"}
    THEN Returned("cpu", "float32")
    ELSE Returned("cpu", "int8")

\* The exception classes the try block of get_device_config catches.
ProbeCatches(exc) == exc = "ImportError"

\* get_device_config() on host h: what it returns, or the exception that
\* leaves it.
get_device_config(h) ==
    IF h.import # "ok"
    THEN IF ProbeCatches(h.import) THEN CpuConfig(h) ELSE Raised(h.import)
    ELSE IF h.cuda = "True" THEN Returned("cuda", "float16")
    ELSE IF h.cuda = "False" THEN CpuConfig(h)
    ELSE IF ProbeCatches(h.cuda) THEN CpuConfig(h) ELSE Raised(h.cuda)

VARIABLES
    host,          \* the environment the process starts in
    boot,          \* "importing" | "configured" | "serving" | "crashed"
    MODEL_SIZE,    \* module global MODEL_SIZE
    DEVICE,        \* module global DEVICE
    COMPUTE_TYPE,  \* module global COMPUTE_TYPE
    bootError,     \* the exception that ended start-up, "" if none
    healthResp     \* the last /health response, None before the first

bootVars == << host, boot, MODEL_SIZE, DEVICE, COMPUTE_TYPE, bootError, healthResp >>

VARIABLES
    reqs,         \* the requests: declared media type and body of each
    pc,           \* where each request's handler is
    running,      \* the coroutine the event loop is running, 0 when idle
    disk,         \* the temporary directory: path -> file
    tmp,          \* tmp.name / tmp_path of each handler, None outside its scope
    content,      \* the local `content` of each handler
    gen,          \* what is left of the `segments` generator
    parts,        \* the stripped texts the join has collected
    info,         \* the local `info`
    pending,      \* the return value or exception the finally block holds up
    resp,         \* the response of each request, None until it is sent
    created,      \* number of temporary files each request created
    unlinked,     \* number of os.unlink calls each request completed
    engineCalls,  \* number of model.transcribe calls each request made
    raised        \* str(e) of the exception the engine raised for each request

reqVars == << reqs, pc, running, disk, tmp, content, gen, parts, info, pending,
              resp, created, unlinked, engineCalls, raised >>

vars == << bootVars, reqVars >>

\* Module import up to and including DEVICE, COMPUTE_TYPE = get_device_config()
Configure ==
    /\ boot = "importing"
    /\ LET r == get_device_config(host) IN
         IF r.kind = "return"
         THEN /\ boot' = "configured"
              /\ DEVICE' = r.device
              /\ COMPUTE_TYPE' = r.compute_type
              /\ bootError' = ""
         ELSE /\ boot' = "crashed"
              /\ bootError' = r.exc
              /\ UNCHANGED << DEVICE, COMPUTE_TYPE >>
    /\ MODEL_SIZE' = GetEnvModel(host.env)
    /\ UNCHANGED << host, healthResp >>
    /\ UNCHANGED reqVars

\* model = WhisperModel(MODEL_SIZE, device=DEVICE, compute_type=COMPUTE_TYPE)
LoadModel ==
    /\ boot = "configured"
    /\ \E ok \in BOOLEAN :
         IF ok THEN boot' = "serving" /\ bootError' = ""
               ELSE boot' = "crashed" /\ bootError' = "ModelLoadError"
    /\ UNCHANGED << host, MODEL_SIZE, DEVICE, COMPUTE_TYPE, healthResp >>
    /\ UNCHANGED reqVars

\* GET /health
health ==
    /\ boot = "serving"
    /\ healthResp' = Some([status |-> "ok", model |-> MODEL_SIZE,
                           device |-> DEVICE, compute_type |-> COMPUTE_TYPE])
    /\ UNCHANGED << host, boot, MODEL_SIZE, DEVICE, COMPUTE_TYPE, bootError >>
    /\ UNCHANGED reqVars

(***************************************************************************)
(* POST /transcribe                                                        *)
(***************************************************************************)

\* The number of requests in flight together.
NumRequests == 2

Requests == 1..NumRequests

\* _get_suffix taking the subtype of the media type as the suffix.
_get_suffix_subtype(content_type) ==
    IF content_type \in {"audio/webm", "audio/wav", "audio/wave", "audio/x-wav",
                         "audio/mp3", "audio/mpeg", "audio/m4a", "audio/mp4",
                         "audio/ogg", "audio/flac"}
    THEN "." \o SubSeq(content_type, 7, Len(content_type))
    ELSE ".audio"

\* _get_suffix(content_type): the filename suffix for a declared media type.
_get_suffix(content_type) ==
    CASE content_type = "audio/webm"  -> ".webm"
      [] content_type = "audio/wav"   -> ".wav"
      [] content_type = "audio/wave"  -> ".wav"
      [] content_type = "audio/x-wav" -> ".wav"
      [] content_type = "audio/mp3"   -> ".mp3"
      [] content_type = "audio/mpeg"  -> ".mp3"
      [] content_type = "audio/m4a"   -> ".m4a"
      [] content_type = "audio/mp4"   -> ".m4a"
      [] content_type = "audio/ogg"   -> ".ogg"
      [] content_type = "audio/flac"  -> ".flac"
      [] OTHER                        -> ".audio"

\* AcceptedType without the prefix test.
AcceptedTypeNonEmpty(content_type) == Truthy(content_type)

\* The condition of line 67 negated: the declared type passes validation.
AcceptedType(content_type) ==
    Truthy(content_type) /\ StartsWith(content_type[1], "audio/")

\* The directory and fixed prefix tempfile gives its names.
TempPrefix == "/tmp/tmp"

\* The random middle parts tempfile can draw for a name.
TempNames == { ToString(i) : i \in Requests }

\* FreshPaths without the check that the name is not in use.
AnyPaths(d, suffix) == { TempPrefix \o n \o suffix : n \in TempNames }

\* The names NamedTemporaryFile(delete=False, suffix=suffix) can create on
\* disk d: it draws names until one does not exist yet (O_EXCL).
FreshPaths(d, suffix) ==
    { TempPrefix \o n \o suffix : n \in TempNames } \ DOMAIN d

\* Unlink leaving the file where it is.
UnlinkNothing(d, path) == d

\* os.unlink(path) on disk d.
Unlink(d, path) == [ q \in DOMAIN d \ {path} |-> d[q] ]

\* A file: its bytes, and the request whose handler created it.
File(bytes, creator) == [bytes |-> bytes, creator |-> creator]

\* Creating (or truncating) the file at path on disk d, on behalf of request r.
CreateFile(d, path, r) ==
    [ q \in DOMAIN d \cup {path} |-> IF q = path THEN File("", r) ELSE d[q] ]

\* tmp.write(bytes) and the close at the end of the with block.
WriteFile(d, path, bytes) ==
    [ q \in DOMAIN d |-> IF q = path THEN File(bytes, d[q].creator) ELSE d[q] ]

(* The engine collaborator (faster_whisper.WhisperModel) is external: what  *)
(* it answers is a function of the bytes of the file it is handed, and it   *)
(* may raise at the call or while its segment generator is consumed.        *)

Segment(text) == [text |-> text]

\* The upload bodies, and what the engine hears in each.
Bodies == {"RIFF:hello-world", "OggS:bonjour", "fLaC:silence", "ID3:a-b-c"}

EngineSegments(bytes) ==
    CASE bytes = "RIFF:hello-world" -> << Segment("  hello "), Segment("world  ") >>
      [] bytes = "OggS:bonjour"     -> << Segment("\tbonjour\n") >>
      [] bytes = "ID3:a-b-c"        -> << Segment(" a  b "), Segment("   "), Segment("c") >>
      [] OTHER                      -> << >>

\* language_probability in percent, duration in tenths of a second.
EngineInfo(bytes) ==
    CASE bytes = "RIFF:hello-world" -> [language |-> "en", language_probability |-> 98, duration |-> 125]
      [] bytes = "OggS:bonjour"     -> [language |-> "fr", language_probability |-> 71, duration |-> 8]
      [] bytes = "ID3:a-b-c"        -> [language |-> "nl", language_probability |-> 40, duration |-> 31]
      [] OTHER                      -> [language |-> "en", language_probability |-> 0, duration |-> 0]

NoInfo == [language |-> "", language_probability |-> 0, duration |-> 0]

\* str(e) of the exceptions the engine raises.
EngineErrors == {"Invalid data found when processing input", ""}

\* The outcomes of a handler, as the client sees them.
Response(kind, status, detail, text, i) ==
    [kind |-> kind, status |-> status, detail |-> detail, text |-> text,
     language |-> i.language,
     language_probability |-> i.language_probability,
     duration |-> i.duration]

\* raise HTTPException(status, detail)
HTTPException(status, detail) == Response("HTTPException", status, detail, "", NoInfo)

\* return {"text": ..., "language": ..., "language_probability": ..., "duration": ...}
Returns(text, i) == Response("return", 200, "", text, i)

\* An exception other than HTTPException leaving the handler.
Unhandled(exc) == Response("unhandled", 500, exc, "", NoInfo)

\* The detail of the HTTPException of line 68.
BadTypeDetail(content_type) == "Expected audio file, got " \o Str(content_type)

\* EngineFailureDetail dropping the text of the exception.
EngineFailureDetailGeneric(e) == "Transcription failed"

\* The detail of the HTTPException of line 97.
EngineFailureDetail(e) == "Transcription failed: " \o e


\* The handler of request r stops with response v and gives up the event
\* loop; its locals go out of scope.
Respond(r, v) ==
    /\ resp' = [resp EXCEPT ![r] = Some(v)]
    /\ pc' = [pc EXCEPT ![r] = "done"]
    /\ running' = 0
    /\ tmp' = [tmp EXCEPT ![r] = None]
    /\ content' = [content EXCEPT ![r] = None]
    /\ gen' = [gen EXCEPT ![r] = << >>]
    /\ parts' = [parts EXCEPT ![r] = << >>]
    /\ info' = [info EXCEPT ![r] = NoInfo]
    /\ pending' = [pending EXCEPT ![r] = None]

\* Lines 60-68: the event loop starts the handler of r, which validates the
\* declared media type.
Dispatch(r) ==
    /\ boot = "serving"
    /\ running = 0
    /\ pc[r] = "pending"
    /\ IF AcceptedType(reqs[r].content_type)
       THEN /\ pc' = [pc EXCEPT ![r] = "create"]
            /\ running' = r
            /\ UNCHANGED << resp, tmp, content, gen, parts, info, pending >>
       ELSE Respond(r, HTTPException(400, BadTypeDetail(reqs[r].content_type)))
    /\ UNCHANGED << reqs, disk, created, unlinked, engineCalls, raised >>
    /\ UNCHANGED bootVars

\* Lines 71-72: suffix = _get_suffix(...); NamedTemporaryFile(delete=False,
\* suffix=suffix) creates an empty file under a name not in use.
CreateTemp(r) ==
    /\ running = r
    /\ pc[r] = "create"
    /\ \E path \in FreshPaths(disk, _get_suffix(reqs[r].content_type[1])) :
         /\ disk' = CreateFile(disk, path, r)
         /\ tmp' = [tmp EXCEPT ![r] = Some(path)]
    /\ created' = [created EXCEPT ![r] = @ + 1]
    /\ pc' = [pc EXCEPT ![r] = "read"]
    /\ UNCHANGED << reqs, running, content, gen, parts, info, pending, resp,
                    unlinked, engineCalls, raised >>
    /\ UNCHANGED bootVars

\* Line 73: content = await file.read().  The read either completes without
\* giving up the event loop (an upload held in memory) or suspends the
\* coroutine (an upload spooled to disk is read in a worker thread).
ReadBody(r) ==
    /\ running = r
    /\ pc[r] = "read"
    /\ \/ /\ content' = [content EXCEPT ![r] = Some(reqs[r].body)]
          /\ pc' = [pc EXCEPT ![r] = "write"]
          /\ UNCHANGED running
       \/ /\ pc' = [pc EXCEPT ![r] = "suspended"]
          /\ running' = 0
          /\ UNCHANGED content
    /\ UNCHANGED << reqs, disk, tmp, gen, parts, info, pending, resp,
                    created, unlinked, engineCalls, raised >>
    /\ UNCHANGED bootVars

\* Line 73, resumed: the awaited read delivers the body.
ResumeRead(r) ==
    /\ running = 0
    /\ pc[r] = "suspended"
    /\ content' = [content EXCEPT ![r] = Some(reqs[r].body)]
    /\ pc' = [pc EXCEPT ![r] = "write"]
    /\ running' = r
    /\ UNCHANGED << reqs, disk, tmp, gen, parts, info, pending, resp,
                    created, unlinked, engineCalls, raised >>
    /\ UNCHANGED bootVars

\* Line 73, resumed with an exception (the read fails, or the task is
\* cancelled while it waits).  The with block closes the file, which
\* delete=False keeps on disk, and the exception leaves the handler: the try
\* of line 77 was never entered.
ReadFails(r) ==
    /\ running = 0
    /\ pc[r] = "suspended"
    /\ \E exc \in {"OSError", "CancelledError"} : Respond(r, Unhandled(exc))
    /\ UNCHANGED << reqs, disk, created, unlinked, engineCalls, raised >>
    /\ UNCHANGED bootVars

\* Lines 74-75 and the end of the with block: the body is written, tmp_path is
\* tmp.name, the file is closed.
WriteBody(r) ==
    /\ running = r
    /\ pc[r] = "write"
    /\ disk' = WriteFile(disk, tmp[r][1], content[r][1])
    /\ pc' = [pc EXCEPT ![r] = "engine"]
    /\ UNCHANGED << reqs, running, tmp, content, gen, parts, info, pending, resp,
                    created, unlinked, engineCalls, raised >>
    /\ UNCHANGED bootVars

\* Line 74 or the closing flush raises (the disk is full): the exception
\* leaves the handler from inside the with block, before the try of line 77.
WriteFails(r) ==
    /\ running = r
    /\ pc[r] = "write"
    /\ Respond(r, Unhandled("OSError"))
    /\ UNCHANGED << reqs, disk, created, unlinked, engineCalls, raised >>
    /\ UNCHANGED bootVars

\* Lines 96-97: except Exception as e: raise HTTPException(500, ...); the
\* finally block runs before the exception leaves.
ExceptHandler(r, e) ==
    /\ raised' = [raised EXCEPT ![r] = Some(e)]
    /\ pending' = [pending EXCEPT ![r] = Some(HTTPException(500, EngineFailureDetail(e)))]
    /\ pc' = [pc EXCEPT ![r] = "finally"]

\* CallEngine awaiting the engine in a worker thread: the coroutine gives up
\* the event loop while the engine works.
CallEngineOffLoop(r) ==
    /\ running = r
    /\ pc[r] = "engine"
    /\ engineCalls' = [engineCalls EXCEPT ![r] = @ + 1]
    /\ tmp[r][1] \in DOMAIN disk
    /\ gen' = [gen EXCEPT ![r] = EngineSegments(disk[tmp[r][1]].bytes)]
    /\ info' = [info EXCEPT ![r] = EngineInfo(disk[tmp[r][1]].bytes)]
    /\ pc' = [pc EXCEPT ![r] = "join"]
    /\ running' = 0
    /\ UNCHANGED << reqs, disk, tmp, content, parts, pending, resp,
                    created, unlinked, raised >>
    /\ UNCHANGED bootVars

\* Lines 79-84: segments, info = model.transcribe(tmp_path, ...).  The engine
\* decodes the file at tmp_path, which must exist, and returns a lazy
\* generator of segments, or raises.
CallEngine(r) ==
    /\ running = r
    /\ pc[r] = "engine"
    /\ engineCalls' = [engineCalls EXCEPT ![r] = @ + 1]
    /\ \/ /\ tmp[r][1] \in DOMAIN disk
          /\ gen' = [gen EXCEPT ![r] = EngineSegments(disk[tmp[r][1]].bytes)]
          /\ info' = [info EXCEPT ![r] = EngineInfo(disk[tmp[r][1]].bytes)]
          /\ pc' = [pc EXCEPT ![r] = "join"]
          /\ UNCHANGED << pending, raised >>
       \/ /\ \E e \in EngineErrors : ExceptHandler(r, e)
          /\ UNCHANGED << gen, info >>
    /\ UNCHANGED << reqs, running, disk, tmp, content, parts, resp,
                    created, unlinked >>
    /\ UNCHANGED bootVars

\* Line 87, one turn of the generator expression: the next segment's text,
\* stripped, or an exception of the engine raised while it decodes on.
NextSegment(r) ==
    /\ running = r
    /\ pc[r] = "join"
    /\ gen[r] # << >>
    /\ \/ /\ parts' = [parts EXCEPT ![r] = Append(@, Strip(Head(gen[r]).text))]
          /\ gen' = [gen EXCEPT ![r] = Tail(@)]
          /\ UNCHANGED << pc, pending, raised >>
       \/ /\ \E e \in EngineErrors : ExceptHandler(r, e)
          /\ UNCHANGED << gen, parts >>
    /\ UNCHANGED << reqs, running, disk, tmp, content, info, resp,
                    created, unlinked, engineCalls >>
    /\ UNCHANGED bootVars

\* Lines 87-94: the generator is exhausted, the texts are joined and the
\* result is returned; the finally block runs before the return completes.
ReturnResult(r) ==
    /\ running = r
    /\ pc[r] = "join"
    /\ gen[r] = << >>
    /\ pending' = [pending EXCEPT ![r] = Some(Returns(Join(" ", parts[r]), info[r]))]
    /\ pc' = [pc EXCEPT ![r] = "finally"]
    /\ UNCHANGED << reqs, running, disk, tmp, content, gen, parts, info, resp,
                    created, unlinked, engineCalls, raised >>
    /\ UNCHANGED bootVars

\* Lines 99-101: finally: os.unlink(tmp_path); then the held-up return value
\* or exception leaves the handler.  os.unlink of a missing path raises, and
\* that exception replaces the one held up.
Finally(r) ==
    /\ running = r
    /\ pc[r] = "finally"
    /\ IF tmp[r][1] \in DOMAIN disk
       THEN /\ disk' = Unlink(disk, tmp[r][1])
            /\ unlinked' = [unlinked EXCEPT ![r] = @ + 1]
            /\ Respond(r, pending[r][1])
       ELSE /\ Respond(r, Unhandled("FileNotFoundError"))
            /\ UNCHANGED << disk, unlinked >>
    /\ UNCHANGED << reqs, created, engineCalls, raised >>
    /\ UNCHANGED bootVars

(***************************************************************************)
(* Specifications                                                          *)
(***************************************************************************)

\* The state of a process that has started up on an x86 host without torch.
Serving ==
    /\ host = [import |-> "ImportError", cuda |-> "False", machine |-> "x86_64", env |-> None]
    /\ boot = "serving"
    /\ MODEL_SIZE = "small"
    /\ DEVICE = "cpu"
    /\ COMPUTE_TYPE = "int8"
    /\ bootError = ""
    /\ healthResp = None

\* rs requests, not yet dispatched, with inputs drawn from the given sets.
Arrived(rs, types, bodies) ==
    /\ reqs \in [rs -> [content_type : types, body : bodies]]
    /\ pc = [r \in rs |-> "pending"]
    /\ running = 0
    /\ disk = << >>
    /\ tmp = [r \in rs |-> None]
    /\ content = [r \in rs |-> None]
    /\ gen = [r \in rs |-> << >>]
    /\ parts = [r \in rs |-> << >>]
    /\ info = [r \in rs |-> NoInfo]
    /\ pending = [r \in rs |-> None]
    /\ resp = [r \in rs |-> None]
    /\ created = [r \in rs |-> 0]
    /\ unlinked = [r \in rs |-> 0]
    /\ engineCalls = [r \in rs |-> 0]
    /\ raised = [r \in rs |-> None]

\* Declared media types of the concurrent workload.
ConcTypes == {Some("text/plain"), Some("audio/wav"), Some("audio/x-aiff")}

\* Upload bodies of the concurrent workload.
ConcBodies == {"RIFF:hello-world", "OggS:bonjour"}

\* Declared media types of the single-request workload.
AllTypes ==
    {None, Some(""), Some("audio"), Some("Audio/wav"), Some(" audio/wav"),
     Some("video/mp4"), Some("text/plain"), Some("application/octet-stream"),
     Some("audio/webm"), Some("audio/wav"), Some("audio/wave"), Some("audio/x-wav"),
     Some("audio/mp3"), Some("audio/mpeg"), Some("audio/m4a"), Some("audio/mp4"),
     Some("audio/ogg"), Some("audio/flac"),
     Some("audio/"), Some("audio/x-aiff"), Some("audio/WAV"), Some("audio/webm;codecs=opus")}

\* NumRequests simultaneous requests.
Init == Serving /\ Arrived(Requests, ConcTypes, ConcBodies)

\* One request, every declared media type and body.
InitSingle == Serving /\ Arrived({1}, AllTypes, Bodies)

\* A process about to start on any host; no request can arrive before it serves.
InitStartup ==
    /\ host \in Hosts
    /\ boot = "importing"
    /\ MODEL_SIZE = ""
    /\ DEVICE = ""
    /\ COMPUTE_TYPE = ""
    /\ bootError = ""
    /\ healthResp = None
    /\ Arrived({}, AllTypes, Bodies)

Next ==
    \E r \in DOMAIN reqs :
        \/ Dispatch(r)
        \/ CreateTemp(r)
        \/ ReadBody(r)
        \/ ResumeRead(r)
        \/ ReadFails(r)
        \/ WriteBody(r)
        \/ WriteFails(r)
        \/ CallEngine(r)
        \/ NextSegment(r)
        \/ ReturnResult(r)
        \/ Finally(r)

NextStartup == Configure \/ LoadModel \/ health

Spec == Init /\ [][Next]_vars

SpecSingle == InitSingle /\ [][Next]_vars

SpecStartup == InitStartup /\ [][NextStartup]_vars

(***************************************************************************)
(* Properties                                                              *)
(***************************************************************************)

\* The request's handler has returned its response.
Done(r) == pc[r] = "done"

\* Some file on disk was created by the handler of r.
FileOfRemains(r) == \E p \in DOMAIN disk : disk[p].creator = r

\* str.endswith(suffix).
EndsWith(s, suffix) ==
    Len(s) >= Len(suffix) /\ SubSeq(s, Len(s) - Len(suffix) + 1, Len(s)) = suffix

\* C1: once the handler of a request that reached the engine has returned,
\* whether the engine succeeded or raised, no temporary file created by that
\* request is on disk.
C1_NoTempFileAfterEngine ==
    \A r \in DOMAIN reqs :
        (Done(r) /\ engineCalls[r] > 0) => ~FileOfRemains(r)

\* A request whose engine call raised has returned, another whose engine call
\* succeeded has returned, and the disk is empty.
C1_Witness ==
    \E r1, r2 \in DOMAIN reqs :
        /\ Done(r1) /\ engineCalls[r1] = 1 /\ raised[r1] # None
        /\ Done(r2) /\ engineCalls[r2] = 1 /\ raised[r2] = None
        /\ disk = << >>

\* C2: on every exit path after its creation, the temporary file of a request
\* is removed exactly once, also when reading the body or writing the file
\* fails before the engine is invoked.
C2_RemovedExactlyOnce ==
    \A r \in DOMAIN reqs :
        (Done(r) /\ created[r] = 1) => (unlinked[r] = 1 /\ ~FileOfRemains(r))

\* The declared media types the claim C3 is about: missing, empty, or not
\* starting with audio/.
Rejectable(content_type) ==
    \/ content_type = None
    \/ content_type = Some("")
    \/ Len(content_type[1]) < 6
    \/ SubSeq(content_type[1], 1, 6) # "audio/"

\* C3: a request whose declared media type is missing, empty or does not start
\* with audio/ never invokes the engine and never creates a temporary file,
\* and its response is 400 with a message that ends in the declared type.
C3_BadTypeRejected ==
    \A r \in DOMAIN reqs :
        Rejectable(reqs[r].content_type) =>
            /\ engineCalls[r] = 0
            /\ created[r] = 0
            /\ ~FileOfRemains(r)
            /\ Done(r) =>
                 /\ resp[r][1].status = 400
                 /\ EndsWith(resp[r][1].detail, Str(reqs[r].content_type))

\* A request with no declared media type has been answered 400.
C3_Witness ==
    \E r \in DOMAIN reqs :
        /\ Done(r)
        /\ reqs[r].content_type = None
        /\ resp[r][1].status = 400
        /\ resp[r][1].detail = "Expected audio file, got None"

\* C4 as stated: an error raised by the engine is answered with 500 whose
\* message is the engine's error text itself, and the engine was invoked once.
C4_MessageIsEngineText ==
    \A r \in DOMAIN reqs :
        (Done(r) /\ raised[r] # None) =>
            /\ resp[r][1].status = 500
            /\ resp[r][1].detail = raised[r][1]
            /\ engineCalls[r] = 1

\* C4 amended: an error raised by the engine, at the call or while segments
\* are consumed, is answered with an HTTPException of status 500 whose message
\* is "Transcription failed: " followed by the engine's error text unchanged,
\* and the engine was invoked exactly once for the request.
C4_MessageCarriesEngineText ==
    \A r \in DOMAIN reqs :
        (Done(r) /\ raised[r] # None) =>
            /\ resp[r][1].kind = "HTTPException"
            /\ resp[r][1].status = 500
            /\ resp[r][1].detail = "Transcription failed: " \o raised[r][1]
            /\ engineCalls[r] = 1

\* A request whose engine raised a non-empty error text has been answered.
C4_Witness ==
    \E r \in DOMAIN reqs :
        /\ Done(r)
        /\ raised[r] = Some("Invalid data found when processing input")
        /\ resp[r][1].status = 500

\* Whether a GPU is available on the host is settled: torch is absent (none),
\* or torch loads and answers the availability query.
GpuSettled(h) == h.import = "ImportError" \/ (h.import = "ok" /\ h.cuda \in {"True", "False"})

GpuAvailable(h) == h.import = "ok" /\ h.cuda = "True"

\* The spellings of arm64 and aarch64, in any letter case, among Machines.
ArmSpellings == {"arm64", "ARM64", "aarch64", "AArch64", "Aarch64"}

\* The three outcomes of the claim C5, first match first.
ExpectedConfig(h) ==
    IF GpuAvailable(h) THEN << "cuda", "float16" >>
    ELSE IF h.machine \in ArmSpellings THEN << "cpu", "float32" >>
    ELSE << "cpu", "int8" >>

\* C5: on every host where GPU availability is settled, get_device_config
\* returns, and DEVICE, COMPUTE_TYPE are the outcome the three ordered
\* branches give for {GPU availability, architecture string}.
C5_ThreeBranches ==
    (boot # "importing" /\ GpuSettled(host)) =>
        /\ bootError \notin {"OSError", "RuntimeError"}
        /\ << DEVICE, COMPUTE_TYPE >> = ExpectedConfig(host)

\* An ARM host spelled in mixed case, without GPU, was configured.
C5_Witness ==
    /\ boot = "configured"
    /\ host.machine = "AArch64"
    /\ ~GpuAvailable(host)
    /\ << DEVICE, COMPUTE_TYPE >> = << "cpu", "float32" >>

\* C6: when detecting the GPU fails (torch missing, torch failing to load, the
\* availability query raising), get_device_config still returns one of the
\* two CPU configurations; start-up never ends in an error of the selection.
C6_DetectionFailureIsNoGpu ==
    (boot # "importing" /\ (host.import # "ok" \/ host.cuda = "RuntimeError")) =>
        /\ bootError \notin {"OSError", "RuntimeError"}
        /\ DEVICE = "cpu"
        /\ COMPUTE_TYPE \in {"float32", "int8"}

\* The suffix table of the claim C7.
SuffixTable ==
    { << "audio/webm", ".webm" >>, << "audio/wav", ".wav" >>, << "audio/wave", ".wav" >>,
      << "audio/x-wav", ".wav" >>, << "audio/mp3", ".mp3" >>, << "audio/mpeg", ".mp3" >>,
      << "audio/m4a", ".m4a" >>, << "audio/mp4", ".m4a" >>, << "audio/ogg", ".ogg" >>,
      << "audio/flac", ".flac" >> }

\* The suffix the claim C7 gives a declared type.
TableSuffix(t) ==
    IF \E e \in SuffixTable : e[1] = t
    THEN (CHOOSE e \in SuffixTable : e[1] = t)[2]
    ELSE ".audio"

\* C7: every file on disk carries the suffix the table gives the declared type
\* of the request that created it (.audio for a type the table lacks), and a
\* request whose declared type starts with audio/ is never answered 400 and
\* has created its file once it is past the creation.
C7_SuffixFromTable ==
    /\ \A p \in DOMAIN disk :
         \E n \in TempNames :
            p = "/tmp/tmp" \o n \o TableSuffix(Str(reqs[disk[p].creator].content_type))
    /\ \A r \in DOMAIN reqs :
         ~Rejectable(reqs[r].content_type) =>
            /\ Done(r) => resp[r][1].status # 400
            /\ pc[r] \notin {"pending", "create"} => created[r] = 1

\* A request declared as audio/mpeg holds a temporary file ending in .mp3.
C7_Witness ==
    \E r \in DOMAIN reqs :
        /\ reqs[r].content_type = Some("audio/mpeg")
        /\ tmp[r] # None
        /\ EndsWith(tmp[r][1], ".mp3")
        /\ tmp[r][1] \in DOMAIN disk

\* The text the claim C8 gives for what the engine hears in each body: the
\* segment texts trimmed and joined with one space.
ExpectedText(bytes) ==
    CASE bytes = "RIFF:hello-world" -> "hello world"
      [] bytes = "OggS:bonjour"     -> "bonjour"
      [] bytes = "ID3:a-b-c"        -> "a  b  c"
      [] bytes = "fLaC:silence"     -> ""

\* C8: a request whose engine call and segments raised nothing is answered
\* 200; its text is the engine's segment texts in order, each trimmed, joined
\* with single spaces, and language, language_probability and duration are the
\* engine's info values.
C8_SuccessfulResponse ==
    \A r \in DOMAIN reqs :
        (Done(r) /\ engineCalls[r] > 0 /\ raised[r] = None) =>
            /\ resp[r][1].kind = "return"
            /\ resp[r][1].status = 200
            /\ resp[r][1].text = ExpectedText(reqs[r].body)
            /\ resp[r][1].language = EngineInfo(reqs[r].body).language
            /\ resp[r][1].language_probability = EngineInfo(reqs[r].body).language_probability
            /\ resp[r][1].duration = EngineInfo(reqs[r].body).duration

\* A body of three segments, one of them only whitespace, was transcribed.
C8_Witness ==
    \E r \in DOMAIN reqs :
        /\ Done(r)
        /\ reqs[r].body = "ID3:a-b-c"
        /\ resp[r][1].status = 200
        /\ resp[r][1].text = "a  b  c"

\* C9: of simultaneous requests, each that succeeds gets the text of the
\* segments of its own body, two handlers never hold the same temporary file,
\* and the file of each request that reached the engine is gone once that
\* request is answered, whatever the state or outcome of the others.
C9_RequestsIsolated ==
    /\ \A r \in DOMAIN reqs :
         (Done(r) /\ resp[r][1].kind = "return") =>
            /\ resp[r][1].text = ExpectedText(reqs[r].body)
            /\ resp[r][1].language = EngineInfo(reqs[r].body).language
    /\ \A r1, r2 \in DOMAIN reqs :
         (r1 # r2 /\ tmp[r1] # None /\ tmp[r2] # None) => tmp[r1] # tmp[r2]
    /\ \A p \in DOMAIN disk :
         tmp[disk[p].creator] \in {None, Some(p)}
    /\ \A r \in DOMAIN reqs :
         (Done(r) /\ engineCalls[r] > 0) => ~FileOfRemains(r)

\* Two requests with different bodies are in flight together, each holding
\* its own temporary file: one awaits its body while the other has collected
\* its first segment.
C9_Witness ==
    \E r1, r2 \in DOMAIN reqs :
        /\ reqs[r1].body # reqs[r2].body
        /\ pc[r1] = "suspended" /\ tmp[r1] # None
        /\ pc[r2] = "join" /\ parts[r2] # << >>
        /\ tmp[r2] # None /\ tmp[r1] # tmp[r2]

\* The positions between the engine's transcribe call and the removal of the
\* temporary file.
EngineSection == {"join", "finally"}

\* C10: a request between the engine call and its temp-file removal is the
\* coroutine the event loop is running, so at most one request is there.
C10_EngineSerialized ==
    /\ \A r \in DOMAIN reqs : pc[r] \in EngineSection => running = r
    /\ Cardinality({ r \in DOMAIN reqs : pc[r] \in EngineSection }) <= 1

\* One request is consuming segments while another is suspended at its await.
C10_Witness ==
    \E r1, r2 \in DOMAIN reqs :
        /\ pc[r1] = "join"
        /\ pc[r2] = "suspended"

====
